---- MODULE Spec2Model ----
(***************************************************************************)
(* autokomplete: a substring autocomplete index.  autocompleter(entries)   *)
(* builds a suffix array (DC3) over the lower-cased, NUL-separated text of *)
(* the entries and returns the closure {match, insert, remove}.            *)
(*                                                                         *)
(* Representation.                                                         *)
(*   - a UTF-16 code unit is its number (charCodeAt);                      *)
(*   - a code point (one element of [...string]) is the sequence of its    *)
(*     code units: <<97>> is "a", <<55357, 56362>> is the camel emoji;     *)
(*   - a JS string is the sequence of its code points;                     *)
(*   - an entry (a JS object) is its property list in insertion order, a   *)
(*     sequence of <<key, value>> pairs with distinct keys;                *)
(*   - a JS array is a sequence; array positions and stream positions keep *)
(*     the code's 0-based numbering and are read with At;                  *)
(*   - an object with integer keys (entryIndex, m12Ranks) is a function    *)
(*     on the set of its keys.                                             *)
(***************************************************************************)
EXTENDS Integers, Sequences, FiniteSets, TLC

\* ------------------------------------------------------------------ bounds
\* longest symbol stream (text plus one NUL per entry) given to build
MaxStream == 6
\* longest query, in code points
MaxQuery == 2
\* number of autocompleter instances alive at once
MaxModels == 3
\* longest query of Spec, in code points
MaxSpecQuery == 1
\* most entries in the list first given to autocompleter in Spec
MaxInit == 2
\* longest array passed as an argument (insert's entries, remove's criteria)
MaxArg == 1

\* ------------------------------------------------------------ JS helpers
\* arr[i] for a 0-based position inside the array
At(arr, i) == arr[i + 1]

\* arr[i] || 0: a read outside the array gives undefined, which || turns to 0
AtOr0(arr, i) == IF i + 1 \in DOMAIN arr THEN arr[i + 1] ELSE 0

\* obj[k] || 0 for an object with integer keys and number values
RankOr0(obj, k) == IF k \in DOMAIN obj THEN obj[k] ELSE 0

SetMin(S) == CHOOSE x \in S : \A y \in S : x <= y

SetMax(S) == CHOOSE x \in S : \A y \in S : y <= x

\* Array.prototype.flat() of an array of arrays
RECURSIVE Flat(_)
Flat(arrs) == IF arrs = <<>> THEN <<>> ELSE Head(arrs) \o Flat(Tail(arrs))

\* the items pushed to buckets[v], in the order they were visited
RECURSIVE PushedTo(_, _, _)
PushedTo(items, keys, v) ==
  IF items = <<>> THEN <<>>
  ELSE (IF Head(keys) = v THEN <<Head(items)>> ELSE <<>>) \o
       PushedTo(Tail(items), Tail(keys), v)

\* buckets[key] ||= []; buckets[key].push(item), for every item in order,
\* keys[i] being the key of items[i]: the sparse array of buckets, a
\* function on the keys that were used
BucketBy(items, keys) ==
  [v \in {keys[i] : i \in DOMAIN keys} |-> PushedTo(items, keys, v)]

\* buckets.forEach(bucket => bucket.forEach(push)): forEach visits the
\* indices of a sparse array in ascending order and skips the holes
RECURSIVE FlatBuckets(_, _)
FlatBuckets(buckets, keys) ==
  IF keys = {} THEN <<>>
  ELSE LET k == SetMin(keys)
       IN buckets[k] \o FlatBuckets(buckets, keys \ {k})

ForEachBucket(buckets) == FlatBuckets(buckets, DOMAIN buckets)

\* arr.slice(start, end) with JS's handling of negative and large indices
SliceJS(arr, start, end) ==
  LET len == Len(arr)
      s == IF start < 0 THEN (IF len + start < 0 THEN 0 ELSE len + start)
           ELSE (IF start > len THEN len ELSE start)
      e == IF end < 0 THEN (IF len + end < 0 THEN 0 ELSE len + end)
           ELSE (IF end > len THEN len ELSE end)
  IN IF s < e THEN SubSeq(arr, s + 1, e) ELSE <<>>

\* ------------------------------------------------------------------ DC3
\* the objects {pos, index} of radixSortM12, in the order of the final
\* buckets: stable LSD passes on inputArray[index + 2], [index + 1], [index]
M12Objects(m12) == [i \in 1..Len(m12) |-> [pos |-> i - 1, index |-> m12[i]]]

M12Sorted(m12, inputArray) ==
  LET \* one pass of the loop `for (let i = 2; i >= 0; i--)`
      pass(objs, i) ==
        ForEachBucket(BucketBy(objs,
          [k \in DOMAIN objs |-> AtOr0(inputArray, objs[k].index + i)]))
  IN pass(pass(pass(M12Objects(m12), 2), 1), 0)

\* hasDuplicate of radixSortM12 for the k-th object in bucket order: the
\* previous object of the same bucket carries the same triple (objects of
\* different buckets differ in inputArray[index], so i !== 0 is implied)
HasDuplicate(objs, inputArray, k) ==
  /\ k > 1
  /\ LET prevIndex == objs[k - 1].index
         index == objs[k].index
     IN /\ At(inputArray, prevIndex) = At(inputArray, index)
        /\ At(inputArray, prevIndex + 1) = At(inputArray, index + 1)
        /\ At(inputArray, prevIndex + 2) = At(inputArray, index + 2)

\* currentRank when the k-th object is ranked: starts at 0 and is
\* incremented before every object that has no duplicate
CurrentRank(objs, inputArray, k) ==
  Cardinality({j \in 1..k : ~HasDuplicate(objs, inputArray, j)})

\* the ranking loop of radixSortM12 over the objects in bucket order
rankM12(objs, m12, inputArray) ==
  LET rankOf(S) == CurrentRank(objs, inputArray, CHOOSE k \in S : TRUE)
  IN [duplicatesFound |->
        \E k \in DOMAIN objs : HasDuplicate(objs, inputArray, k),
      rankedM12 |->
        [i \in 1..Len(m12) |-> rankOf({k \in DOMAIN objs : objs[k].pos = i - 1})],
      sortedM12 |-> [k \in DOMAIN objs |-> objs[k].index],
      m12Ranks |->
        [x \in {m12[i] : i \in DOMAIN m12} |->
           rankOf({k \in DOMAIN objs : objs[k].index = x})]]

radixSortM12(m12, inputArray) ==
  rankM12(M12Sorted(m12, inputArray), m12, inputArray)

radixSortM0(m0, m12Ranks, inputArray) ==
  LET \* the second pass, on inputArray[index], over the result of the first
      sortByValue(current) ==
        ForEachBucket(BucketBy(current,
          [k \in DOMAIN current |-> At(inputArray, current[k])]))
  IN sortByValue(ForEachBucket(BucketBy(m0,
       [k \in DOMAIN m0 |-> RankOr0(m12Ranks, m0[k] + 1)])))

\* compare that goes on symbol by symbol, never by ranks, until two symbols
\* differ or the padded input ends
RECURSIVE compareBySymbols(_, _, _, _, _)
compareBySymbols(input, indexRanks, m0, m12, calls) ==
  IF m0 >= Len(input) \/ m12 >= Len(input)
  THEN [less |-> m0 > m12, byRanks |-> FALSE, m0 |-> m0, m12 |-> m12,
        calls |-> calls]
  ELSE IF At(input, m0) = At(input, m12)
       THEN compareBySymbols(input, indexRanks, m0 + 1, m12 + 1, calls + 1)
       ELSE [less |-> At(input, m0) < At(input, m12), byRanks |-> FALSE,
             m0 |-> m0, m12 |-> m12, calls |-> calls]

\* compare of merge with the run recorded: `less` is what compare returns,
\* true when the suffix at m0 is to be pushed first; m0 and m12 are the
\* positions the deciding call was made on, byRanks tells whether it
\* compared ranks or symbols, and calls counts the calls compare made to
\* itself before it
RECURSIVE compareFrom(_, _, _, _, _)
compareFrom(input, indexRanks, m0, m12, calls) ==
  IF m0 % 3 # 0 /\ m12 % 3 # 0
  THEN [less |-> RankOr0(indexRanks, m0) < RankOr0(indexRanks, m12),
        byRanks |-> TRUE, m0 |-> m0, m12 |-> m12, calls |-> calls]
  ELSE IF At(input, m0) = At(input, m12)
       THEN compareFrom(input, indexRanks, m0 + 1, m12 + 1, calls + 1)
       ELSE [less |-> At(input, m0) < At(input, m12), byRanks |-> FALSE,
             m0 |-> m0, m12 |-> m12, calls |-> calls]

compare(input, indexRanks, m0, m12) ==
  compareFrom(input, indexRanks, m0, m12, 0).less

\* the while loop of merge without the two slices that follow it
RECURSIVE mergeFromWithoutRest(_, _, _, _, _, _)
mergeFromWithoutRest(input, sortedM0, sortedM12, indexRanks, m0Index, m12Index) ==
  IF m0Index < Len(sortedM0) /\ m12Index < Len(sortedM12)
  THEN IF compare(input, indexRanks, At(sortedM0, m0Index), At(sortedM12, m12Index))
       THEN <<At(sortedM0, m0Index)>> \o
            mergeFromWithoutRest(input, sortedM0, sortedM12, indexRanks,
                                 m0Index + 1, m12Index)
       ELSE <<At(sortedM12, m12Index)>> \o
            mergeFromWithoutRest(input, sortedM0, sortedM12, indexRanks,
                                 m0Index, m12Index + 1)
  ELSE <<>>

\* the while loop of merge from (m0Index, m12Index), then the two slices
RECURSIVE mergeFrom(_, _, _, _, _, _)
mergeFrom(input, sortedM0, sortedM12, indexRanks, m0Index, m12Index) ==
  IF m0Index < Len(sortedM0) /\ m12Index < Len(sortedM12)
  THEN IF compare(input, indexRanks, At(sortedM0, m0Index), At(sortedM12, m12Index))
       THEN <<At(sortedM0, m0Index)>> \o
            mergeFrom(input, sortedM0, sortedM12, indexRanks, m0Index + 1, m12Index)
       ELSE <<At(sortedM12, m12Index)>> \o
            mergeFrom(input, sortedM0, sortedM12, indexRanks, m0Index, m12Index + 1)
  ELSE SliceJS(sortedM0, m0Index, Len(sortedM0)) \o
       SliceJS(sortedM12, m12Index, Len(sortedM12))

merge(input, sortedM0, sortedM12, indexRanks) ==
  mergeFrom(input, sortedM0, sortedM12, indexRanks, 0, 0)

\* the elements of a set of numbers in ascending order
RECURSIVE Ascending(_)
Ascending(S) ==
  IF S = {} THEN <<>>
  ELSE <<SetMin(S)>> \o Ascending(S \ {SetMin(S)})

\* the positions i < inputLength with i % 3 = k, in the order of the for
\* loop that pushes them
ModClass(inputLength, k) ==
  Ascending({i \in 0..(inputLength - 1) : i % 3 = k})

\* sortedM12.forEach((index, i) => (m12Ranks[index] = i)): every key of
\* m12Ranks is an element of sortedM12, so every rank is overwritten
ranksInOrder(sortedM12) ==
  [x \in {sortedM12[i] : i \in DOMAIN sortedM12} |->
     (CHOOSE i \in DOMAIN sortedM12 : sortedM12[i] = x) - 1]

\* getSuffixArray(rankedM12).map(i => m12[i])
mapToM12(recursed, m12) == [i \in DOMAIN recursed |-> At(m12, recursed[i])]

\* the end of getSuffixArray: sortedM0 from the ranks, then the merge
sortM0AndMerge(inputArray, m0, sortedM12, m12Ranks) ==
  merge(inputArray, radixSortM0(m0, m12Ranks, inputArray), sortedM12, m12Ranks)

RECURSIVE getSuffixArray(_)
\* sortedM12 and m12Ranks after the block `if (duplicatesFound) {...}`,
\* radixSortM12 having returned `first`
resortM12(m12, first) ==
  LET withRanks(sortedM12) ==
        [sortedM12 |-> sortedM12, m12Ranks |-> ranksInOrder(sortedM12)]
  IN IF first.duplicatesFound
     THEN withRanks(mapToM12(getSuffixArray(first.rankedM12), m12))
     ELSE [sortedM12 |-> first.sortedM12, m12Ranks |-> first.m12Ranks]

\* getSuffixArray after radixSortM12 has returned `first`
afterSortM12(inputArray, m0, m12, first) ==
  LET finish(resorted) ==
        sortM0AndMerge(inputArray, m0, resorted.sortedM12, resorted.m12Ranks)
  IN finish(resortM12(m12, first))

\* getSuffixArray after the split into m0 and m12 and the padding
afterSplit(inputArray, m0, m12) ==
  afterSortM12(inputArray, m0, m12, radixSortM12(m12, inputArray))

\* m1.concat(m2) for an input of the given length
M12Of(inputLength) == ModClass(inputLength, 1) \o ModClass(inputLength, 2)

getSuffixArray(initialArray) ==
  afterSplit(initialArray \o <<0, 0, 0>>,
             ModClass(Len(initialArray), 0),
             M12Of(Len(initialArray)))

\* ------------------------------------------------------- text and entries
\* the NUL character appended after each string; '\x00'.charCodeAt() is 0
Sentinel == <<0>>

\* String.prototype.toLowerCase on one code point: "A" (65) becomes "a" (97),
\* every other code point of the alphabet is its own lower case
toLowerCase(char) == IF char = <<65>> THEN <<97>> ELSE char

\* entry[key]; undefined when the entry has no such property
HasProp(entry, key) == \E i \in DOMAIN entry : entry[i][1] = key

Prop(entry, key) == entry[CHOOSE i \in DOMAIN entry : entry[i][1] = key][2]

\* [...string].map(char => char.toLowerCase()[0]).concat(['\x00']): one
\* element per code point, the first code unit of its lower case
StringChars(string) ==
  [i \in DOMAIN string |-> toLowerCase(string[i])[1]] \o Sentinel

\* the callback ({ string }) => [...string] spreads undefined for an entry
\* without a string property, which throws a TypeError out of build
buildThrows(entries) ==
  \E i \in DOMAIN entries : ~HasProp(entries[i], "string")

getCharacterArray(entries) ==
  Flat([i \in DOMAIN entries |-> StringChars(Prop(entries[i], "string"))])

\* currIndex before the k-th row: the sum of [...row.string].length + 1
\* over the rows before it
RECURSIVE StartOf(_, _)
StartOf(input, k) ==
  IF k = 1 THEN 0
  ELSE StartOf(input, k - 1) + Len(Prop(input[k - 1], "string")) + 1

getInputIndex(input) ==
  [p \in {StartOf(input, k) : k \in DOMAIN input} |->
     input[CHOOSE k \in DOMAIN input : StartOf(input, k) = p]]

\* mapCharacterArray(...)[i].e: currentEntryIndex after the first i + 1
\* characters, the last key of entryIndex at or before i
mapCharacterArray(charArray, entryIndex) ==
  [i \in DOMAIN charArray |->
     SetMax({k \in DOMAIN entryIndex : k <= i - 1})]

\* the variables build leaves in the closure
closure(charArray, suffixArray, entryIndex, mappedChars) ==
  [suffixArray |-> suffixArray,
   entryIndex |-> entryIndex,
   suffixArrayEntries |->
     [i \in DOMAIN suffixArray |-> At(mappedChars, suffixArray[i])],
   charArray |-> charArray]

buildFrom(charArray, entryIndex) ==
  closure(charArray, getSuffixArray(charArray), entryIndex,
          mapCharacterArray(charArray, entryIndex))

build(entries) == buildFrom(getCharacterArray(entries), getInputIndex(entries))

\* Object.values(entryIndex): the entries by ascending integer key
RECURSIVE ValuesOf(_, _)
ValuesOf(obj, keys) ==
  IF keys = {} THEN <<>>
  ELSE <<obj[SetMin(keys)]>> \o ValuesOf(obj, keys \ {SetMin(keys)})

ObjectValues(obj) == ValuesOf(obj, DOMAIN obj)

\* ---------------------------------------------------------------- match
\* query.toLowerCase(), as the code units query[0], query[1], ...
QueryUnits(query) == Flat([i \in DOMAIN query |-> toLowerCase(query[i])])

\* the first i with query[i] !== charArray[suffixPos + i], or query.length;
\* a read past the end of charArray is undefined and equals no code unit
RECURSIVE LcpLen(_, _, _, _)
LcpLen(charArray, q, suffixPos, i) ==
  IF i >= Len(q) THEN i
  ELSE IF suffixPos + i + 1 \in DOMAIN charArray
          /\ At(q, i) = At(charArray, suffixPos + i)
       THEN LcpLen(charArray, q, suffixPos, i + 1)
       ELSE i

getLCP(charArray, q, suffixPos) ==
  LET i == LcpLen(charArray, q, suffixPos, 0)
  IN [lcpLen |-> i,
      isMatched |-> (i = Len(q)),
      hasNext |-> (i < Len(q) /\ suffixPos + i + 1 \in DOMAIN charArray),
      nextChar |-> IF i < Len(q) /\ suffixPos + i + 1 \in DOMAIN charArray
                   THEN At(charArray, suffixPos + i) ELSE 0]

\* query < lcp + nextChar: lcp is a prefix of query, so the first differing
\* code unit decides; an undefined nextChar is concatenated as "undefined",
\* whose first code unit is "u" (117)
QueryIsLess(q, lcp) ==
  At(q, lcp.lcpLen) < (IF lcp.hasNext THEN lcp.nextChar ELSE 117)

\* binarySearch that returns the first midpoint whose suffix matches,
\* without looking at its neighbour
RECURSIVE binarySearchAnyMatch(_, _, _, _, _)
binarySearchAnyMatch(m, q, start, end, lastMatch) ==
  IF start > end THEN 0 - 1
  ELSE
    LET midpoint == start + ((end - start) \div 2)
        lcp == getLCP(m.charArray, q, At(m.suffixArray, midpoint))
    IN IF lcp.isMatched
       THEN midpoint
       ELSE IF QueryIsLess(q, lcp)
            THEN binarySearchAnyMatch(m, q, start, midpoint - 1, lastMatch)
            ELSE binarySearchAnyMatch(m, q, midpoint + 1, end, lastMatch)

RECURSIVE binarySearch(_, _, _, _, _)
binarySearch(m, q, start, end, lastMatch) ==
  IF start > end THEN 0 - 1
  ELSE
    LET midpoint == start + ((end - start) \div 2)
        suffixPos == At(m.suffixArray, midpoint)
        lcp == getLCP(m.charArray, q, suffixPos)
        neighborIndex == midpoint + (IF lastMatch THEN 1 ELSE 0 - 1)
    IN IF lcp.isMatched
       THEN IF neighborIndex > Len(m.suffixArray) - 1 \/ neighborIndex < 0
            THEN midpoint
            ELSE IF ~getLCP(m.charArray, q, At(m.suffixArray, neighborIndex)).isMatched
                 THEN midpoint
                 ELSE IF lastMatch
                      THEN binarySearch(m, q, midpoint + 1, end, lastMatch)
                      ELSE binarySearch(m, q, start, midpoint - 1, lastMatch)
       ELSE IF QueryIsLess(q, lcp)
            THEN binarySearch(m, q, start, midpoint - 1, lastMatch)
            ELSE binarySearch(m, q, midpoint + 1, end, lastMatch)

\* the forEach of getEntries without the matchedIDs test
DedupeNothing(ids, matchedIDs) == ids

\* the forEach of getEntries over the slice: an entryID already in
\* matchedIDs is skipped, a new one is pushed
RECURSIVE Dedupe(_, _)
Dedupe(ids, matchedIDs) ==
  IF ids = <<>> THEN <<>>
  ELSE IF Head(ids) \in matchedIDs
       THEN Dedupe(Tail(ids), matchedIDs)
       ELSE <<Head(ids)>> \o Dedupe(Tail(ids), matchedIDs \cup {Head(ids)})

\* getEntries slicing to `end` instead of `end + 1`
getEntriesEndExclusive(m, start, end) ==
  Dedupe(SliceJS(m.suffixArrayEntries, start, end), {})

\* getEntries slicing from `start` with no end
getEntriesNoEnd(m, start, end) ==
  Dedupe(SliceJS(m.suffixArrayEntries, start, Len(m.suffixArrayEntries)), {})

\* getEntries returns the entry objects entryIndex[entryID]; the returned
\* array is modelled by the entryIDs, each standing for the reference to
\* that object, and MatchedEntries gives the objects themselves
getEntries(m, start, end) ==
  Dedupe(SliceJS(m.suffixArrayEntries, start, end + 1), {})

match(m, query) ==
  LET q == QueryUnits(query)
      firstMatch == binarySearch(m, q, 0, Len(m.suffixArray) - 1, FALSE)
      lastMatch == binarySearch(m, q, 0, Len(m.suffixArray) - 1, TRUE)
  IN getEntries(m, firstMatch, lastMatch)

MatchedEntries(m, ids) == [i \in DOMAIN ids |-> m.entryIndex[ids[i]]]

\* ----------------------------------------------------- insert and remove
\* autocompleter(entries): the state the returned closure keeps
autocompleter(entries) == build(entries)

\* Array.prototype.concat(x): an array argument is spread, any other value
\* is appended as one element.  x is [isArray, value]
Concat(arr, x) == IF x.isArray THEN arr \o x.value ELSE Append(arr, x.value)

\* insert with the two lists concatenated the other way round
insertEntriesInFront(m, x) ==
  (IF x.isArray THEN x.value ELSE <<x.value>>) \o ObjectValues(m.entryIndex)

\* the list insert gives to autocompleter.  The guard
\* `!entries instanceof Array` parses as `(!entries) instanceof Array`, a
\* boolean tested against Array: it is false for every argument, so the
\* argument is never wrapped and reaches concat as it was passed
insertEntries(m, x) ==
  LET wrapped == IF FALSE THEN [isArray |-> TRUE, value |-> <<x.value>>] ELSE x
  IN Concat(ObjectValues(m.entryIndex), wrapped)

\* the rank of a property name in the order of a[0] < b[0]
KeyRank(key) == CASE key = "id" -> 1 [] key = "string" -> 2

\* sortProps that returns the entry with its properties in their own order
sortPropsUnsorted(entry) == entry

\* Object.fromEntries(Object.entries(entry).sort(by name))
RECURSIVE SortByKey(_, _)
SortByKey(entry, left) ==
  IF left = {} THEN <<>>
  ELSE LET i == CHOOSE j \in left :
                  \A k \in left : KeyRank(entry[j][1]) <= KeyRank(entry[k][1])
       IN <<entry[i]>> \o SortByKey(entry, left \ {i})

sortProps(entry) == SortByKey(entry, DOMAIN entry)

\* JSON.stringify of an object whose values are strings and numbers: the
\* text lists the properties in the object's order, so two texts are equal
\* exactly when the two property lists are; the list stands for the text
JSONstringify(entry) == entry

\* JSON.parse(JSON.stringify(entryIndex)): a copy of every entry, equal in
\* value to the original for string and number properties
JSONclone(entryIndex) ==
  [k \in DOMAIN entryIndex |-> JSONstringify(entryIndex[k])]

\* a filter is a caller's function of an entry; it is modelled by the set
\* of entries on which it returns a truthy value
ApplyFilter(filter, entry) == entry \in filter

\* the callback of remove with the filters read as "keep what passes":
\* if (!filter(entry)) return false
removeKeepsPassing(criteria, entry) ==
  LET sortedEntryStrings ==
        [i \in DOMAIN criteria.entries.list |->
           JSONstringify(sortProps(criteria.entries.list[i]))]
  IN /\ criteria.filters.given =>
          \A i \in DOMAIN criteria.filters.list :
            ApplyFilter(criteria.filters.list[i], entry)
     /\ criteria.strings.given =>
          \A i \in DOMAIN criteria.strings.list :
            criteria.strings.list[i] # Prop(entry, "string")
     /\ criteria.entries.given =>
          \A i \in DOMAIN sortedEntryStrings :
            sortedEntryStrings[i] # JSONstringify(sortProps(entry))

\* the callback of newEntries.filter in remove: true keeps the entry.
\* A criterion is [given, list]; one that was not passed is undefined
removeKeeps(criteria, entry) ==
  LET sortedEntryStrings ==
        [i \in DOMAIN criteria.entries.list |->
           JSONstringify(sortProps(criteria.entries.list[i]))]
  IN IF criteria.filters.given
        /\ \E i \in DOMAIN criteria.filters.list :
             ApplyFilter(criteria.filters.list[i], entry)
     THEN FALSE
     ELSE IF criteria.strings.given
             /\ \E i \in DOMAIN criteria.strings.list :
                  criteria.strings.list[i] = Prop(entry, "string")
          THEN FALSE
          ELSE IF criteria.entries.given
                  /\ \E i \in DOMAIN sortedEntryStrings :
                       sortedEntryStrings[i] = JSONstringify(sortProps(entry))
               THEN FALSE
               ELSE TRUE

\* the list remove gives to autocompleter
removeEntries(m, criteria) ==
  SelectSeq(ObjectValues(JSONclone(m.entryIndex)),
            LAMBDA entry : removeKeeps(criteria, entry))

\* ------------------------------------------------------ bounded inputs
\* the code points of the texts: "A", "a" and an emoji of two code units
Chars == {<<65>>, <<97>>, <<55357, 56362>>}

RECURSIVE StringsUpTo(_)
StringsUpTo(n) ==
  IF n = 0 THEN {<<>>}
  ELSE LET shorter == StringsUpTo(n - 1)
       IN shorter \cup {<<c>> \o t : c \in Chars, t \in {u \in shorter : Len(u) = n - 1}}

Queries == StringsUpTo(MaxQuery)

TextEntry(string) == <<<<"string", string>>>>

\* every list of text-only entries whose symbol stream has at most n symbols
RECURSIVE EntryListsWithin(_)
EntryListsWithin(n) ==
  IF n <= 0 THEN {<<>>}
  ELSE {<<>>} \cup
       UNION {{<<TextEntry(t)>> \o rest : rest \in EntryListsWithin(n - Len(t) - 1)} :
                t \in StringsUpTo(n - 1)}

\* the entries of the models of Spec: {string: "Aa", id: 2},
\* {id: 5, string: "a"} and {string: "a" + emoji, id: 1}
Universe ==
  {<<<<"string", <<<<65>>, <<97>>>>>>, <<"id", 2>>>>,
   <<<<"id", 5>>, <<"string", <<<<97>>>>>>>>,
   <<<<"string", <<<<97>>, <<55357, 56362>>>>>>, <<"id", 1>>>>}

\* the entries a caller lists for removal: one of the models' entries
\* without its id, one with its properties in the other order, one with
\* another id
Listed ==
  {<<<<"string", <<<<97>>, <<55357, 56362>>>>>>>>,
   <<<<"id", 2>>, <<"string", <<<<65>>, <<97>>>>>>>>,
   <<<<"string", <<<<97>>>>>>, <<"id", 8>>>>}

\* the strings a caller lists for removal: "a" and "A"
ListedStrings == {<<<<97>>>>, <<<<65>>>>}

\* the filter functions of the tests: entry => entry.id < 5 (false when
\* id is undefined) and entry => !entry.string.startsWith("A")
idFilter == {e \in Universe : HasProp(e, "id") /\ Prop(e, "id") < 5}

stringFilter ==
  {e \in Universe : ~(Len(Prop(e, "string")) > 0 /\ Prop(e, "string")[1] = <<65>>)}

Filters == {idFilter, stringFilter}

RECURSIVE ListsUpTo(_, _)
ListsUpTo(S, n) ==
  IF n = 0 THEN {<<>>}
  ELSE LET shorter == ListsUpTo(S, n - 1)
       IN shorter \cup {<<x>> \o t : x \in S, t \in {u \in shorter : Len(u) = n - 1}}

\* a criterion of remove: not passed, or an array of at most MaxArg elements
Criterion(S) ==
  {[given |-> FALSE, list |-> <<>>]} \cup
  {[given |-> TRUE, list |-> l] : l \in ListsUpTo(S, MaxArg)}

CriteriaObjects ==
  [filters : Criterion(Filters),
   strings : Criterion(ListedStrings),
   entries : Criterion(Listed)]

NoCriteria ==
  [filters |-> [given |-> FALSE, list |-> <<>>],
   strings |-> [given |-> FALSE, list |-> <<>>],
   entries |-> [given |-> FALSE, list |-> <<>>]]

\* what insert is called with: one entry, or an array of entries
InsertArgs ==
  {[isArray |-> FALSE, value |-> e] : e \in Universe} \cup
  {[isArray |-> TRUE, value |-> l] : l \in ListsUpTo(Universe, MaxArg)}

\* ------------------------------------------------------------- the state
\* models: the state of every autocompleter instance made so far
\* inputs: the entries array each instance was made from
\* call:   the last call, its arguments and what it returned
VARIABLES models, inputs, call

vars == <<models, inputs, call>>

NoCall ==
  [op |-> "autocompleter", on |-> 0, entries |-> <<>>, query |-> <<>>,
   insertArg |-> [isArray |-> TRUE, value |-> <<>>], hasArg |-> FALSE, criteria |-> NoCriteria, matched |-> <<>>, made |-> 1,
   error |-> "none"]

InitWith(entries) ==
  /\ models = <<autocompleter(entries)>>
  /\ inputs = <<entries>>
  /\ call = NoCall

Init == \E entries \in ListsUpTo(Universe, MaxInit) : InitWith(entries)

InitMatch == \E entries \in EntryListsWithin(MaxStream) : InitWith(entries)

\* models[i].match(query)
Match(i, query) ==
  /\ call' = [NoCall EXCEPT !.op = "match", !.on = i, !.query = query,
                            !.matched = match(models[i], query), !.made = 0]
  /\ UNCHANGED <<models, inputs>>

\* insert that also replaces the receiver's state by the new one
InsertInPlace(i, x) ==
  /\ Len(models) < MaxModels
  /\ LET newEntries == insertEntries(models[i], x)
     IN /\ models' = Append([models EXCEPT ![i] = autocompleter(newEntries)],
                            autocompleter(newEntries))
        /\ inputs' = Append(inputs, newEntries)
  /\ call' = [NoCall EXCEPT !.op = "insert", !.on = i, !.insertArg = x,
                            !.made = Len(models) + 1]

\* the records of a list that have a string property
WithString(entries) ==
  SelectSeq(entries, LAMBDA entry : HasProp(entry, "string"))

\* insert that leaves out the records without a string property and builds
\* a model from the others
InsertSkippingInvalid(i, x) ==
  /\ Len(models) < MaxModels
  /\ LET newEntries == WithString(insertEntries(models[i], x))
     IN /\ models' = Append(models, autocompleter(newEntries))
        /\ inputs' = Append(inputs, newEntries)
  /\ call' = [NoCall EXCEPT !.op = "insert", !.on = i, !.insertArg = x,
                            !.made = Len(models) + 1]

\* models[i].insert(x): autocompleter(newEntries) throws out of insert when
\* build does, and then nothing is returned
Insert(i, x) ==
  /\ Len(models) < MaxModels
  /\ LET newEntries == insertEntries(models[i], x)
     IN IF buildThrows(newEntries)
        THEN /\ UNCHANGED <<models, inputs>>
             /\ call' = [NoCall EXCEPT !.op = "insert", !.on = i,
                                       !.insertArg = x, !.made = 0,
                                       !.error = "TypeError"]
        ELSE /\ models' = Append(models, autocompleter(newEntries))
             /\ inputs' = Append(inputs, newEntries)
             /\ call' = [NoCall EXCEPT !.op = "insert", !.on = i,
                                       !.insertArg = x,
                                       !.made = Len(models) + 1]

\* models[i].remove(criteria)
Remove(i, criteria) ==
  /\ Len(models) < MaxModels
  /\ LET newEntries == removeEntries(models[i], criteria)
     IN /\ models' = Append(models, autocompleter(newEntries))
        /\ inputs' = Append(inputs, newEntries)
  /\ call' = [NoCall EXCEPT !.op = "remove", !.on = i, !.hasArg = TRUE,
                            !.criteria = criteria, !.made = Len(models) + 1]

\* models[i].remove(): the parameter pattern { strings, entries, filters }
\* is destructured from undefined, which throws a TypeError before the
\* body runs; nothing is returned
RemoveNoArgument(i) ==
  /\ call' = [NoCall EXCEPT !.op = "remove", !.on = i, !.hasArg = FALSE,
                            !.made = 0, !.error = "TypeError"]
  /\ UNCHANGED <<models, inputs>>

Next ==
  \/ \E i \in DOMAIN models, query \in StringsUpTo(MaxSpecQuery) : Match(i, query)
  \/ \E i \in DOMAIN models, x \in InsertArgs : Insert(i, x)
  \/ \E i \in DOMAIN models, criteria \in CriteriaObjects : Remove(i, criteria)
  \/ \E i \in DOMAIN models : RemoveNoArgument(i)

Spec == Init /\ [][Next]_vars

\* SpecMatch applies match once to every model built from a bounded list
\* and every bounded query.  match changes no state, so a second match
\* would reach nothing that the first does not
NextMatch ==
  \E query \in Queries : call.op = "autocompleter" /\ Match(1, query)

SpecMatch == InitMatch /\ [][NextMatch]_vars

\* a record without a string property: {id: 7}
NoStringRecord == <<<<"id", 7>>>>

AnyRecords == Universe \cup {NoStringRecord}

\* what insert is called with when records without a string are allowed
AnyInsertArgs ==
  {[isArray |-> FALSE, value |-> e] : e \in AnyRecords} \cup
  {[isArray |-> TRUE, value |-> l] : l \in ListsUpTo(AnyRecords, MaxArg)}

\* the module is loaded and autocompleter has not been called
InitLoaded ==
  /\ models = <<>>
  /\ inputs = <<>>
  /\ call = [NoCall EXCEPT !.op = "none", !.made = 0]

\* autocompleter(entries): build runs before anything is returned, and
\* its TypeError leaves the caller without a model
Construct(entries) ==
  /\ Len(models) < MaxModels
  /\ IF buildThrows(entries)
     THEN /\ UNCHANGED <<models, inputs>>
          /\ call' = [NoCall EXCEPT !.entries = entries, !.made = 0,
                                    !.error = "TypeError"]
     ELSE /\ models' = Append(models, autocompleter(entries))
          /\ inputs' = Append(inputs, entries)
          /\ call' = [NoCall EXCEPT !.entries = entries,
                                    !.made = Len(models) + 1]

NextInvalid ==
  \/ \E entries \in ListsUpTo(AnyRecords, MaxInit) : Construct(entries)
  \/ \E i \in DOMAIN models, x \in AnyInsertArgs : Insert(i, x)
  \/ \E i \in DOMAIN models, query \in StringsUpTo(MaxSpecQuery) : Match(i, query)

\* SpecInvalid calls autocompleter and insert with lists that may hold a
\* record without a string property
SpecInvalid == InitLoaded /\ [][NextInvalid]_vars

\* ------------------------------------------------- vocabulary of the claims
\* string.toLowerCase() as code units
LowerText(string) == Flat([i \in DOMAIN string |-> toLowerCase(string[i])])

\* t.includes(q) on code units
ContainsSub(t, q) ==
  \E i \in 0..(Len(t) - Len(q)) : SubSeq(t, i + 1, i + Len(q)) = q

\* the k-th record of the list a model was built from contains the query,
\* case-insensitively
RecordContains(entries, k, query) ==
  ContainsSub(LowerText(Prop(entries[k], "string")), LowerText(query))

\* the reference match returns for the k-th record of the input list
RecordRef(entries, k) == StartOf(entries, k)

\* the k-th record of the receiver's input list is among the results of
\* the last match
Returned(k) ==
  \E j \in DOMAIN call.matched :
    call.matched[j] = RecordRef(inputs[call.on], k)

\* how many results of the last match refer to the k-th record
TimesReturned(k) ==
  Cardinality({j \in DOMAIN call.matched :
                 call.matched[j] = RecordRef(inputs[call.on], k)})

IsAstral(char) == Len(char) > 1

\* C1: after match(q), a record r of the input list is among the results
\* if and only if lowercase(r.string) contains lowercase(q) as a contiguous
\* substring, at any offset.
C1_SubstringMatch ==
  call.op = "match" =>
    \A k \in DOMAIN inputs[call.on] :
      Returned(k) <=> RecordContains(inputs[call.on], k, call.query)

\* C2: after match(c) for a code point c of more than one UTF-16 code unit,
\* the results hold exactly the records whose string contains c.
C2_AstralMatch ==
  (call.op = "match" /\ Len(call.query) = 1 /\ IsAstral(call.query[1])) =>
    \A k \in DOMAIN inputs[call.on] :
      Returned(k) <=>
        \E i \in DOMAIN Prop(inputs[call.on][k], "string") :
          Prop(inputs[call.on][k], "string")[i] = call.query[1]

\* how many offsets of t hold q
Occurrences(t, q) ==
  Cardinality({i \in 0..(Len(t) - Len(q)) : SubSeq(t, i + 1, i + Len(q)) = q})

\* C3: match returns each input record, identified by its position in the
\* input list, at most once, however often the query occurs in its text.
C3_NoDuplicates ==
  call.op = "match" =>
    \A k \in DOMAIN inputs[call.on] : TimesReturned(k) <= 1

\* a non-empty query that occurs at two offsets of a record's text, and the
\* record returned
C3_Witness ==
  /\ call.op = "match"
  /\ call.query # <<>>
  /\ \E k \in DOMAIN inputs[call.on] :
       /\ Occurrences(LowerText(Prop(inputs[call.on][k], "string")),
                      LowerText(call.query)) >= 2
       /\ TimesReturned(k) = 1

\* C4: match("") on a model built from R records returns exactly R results,
\* one for each input record, records with an empty string included.
C4_EmptyQueryAll ==
  (call.op = "match" /\ call.query = <<>>) =>
    /\ Len(call.matched) = Len(inputs[call.on])
    /\ \A k \in DOMAIN inputs[call.on] : TimesReturned(k) = 1

\* match("") on a model of several records, one of them with an empty string
C4_Witness ==
  /\ call.op = "match"
  /\ call.query = <<>>
  /\ Len(inputs[call.on]) >= 2
  /\ \E k \in DOMAIN inputs[call.on] : Prop(inputs[call.on][k], "string") = <<>>
  /\ \E k \in DOMAIN inputs[call.on] : Prop(inputs[call.on][k], "string") # <<>>
  /\ Len(call.matched) = Len(inputs[call.on])

\* C5: match of a query that occurs in no record, on any model and on the
\* model built from an empty list, returns the empty list and raises nothing.
C5_NoMatchEmpty ==
  (call.op = "match"
   /\ \A k \in DOMAIN inputs[call.on] :
        ~RecordContains(inputs[call.on], k, call.query)) =>
    /\ call.matched = <<>>
    /\ call.error = "none"

\* a query that occurs in none of the records of a non-empty model: both
\* binary searches give -1
C5_Witness ==
  /\ call.op = "match"
  /\ inputs[call.on] # <<>>
  /\ \A k \in DOMAIN inputs[call.on] :
       ~RecordContains(inputs[call.on], k, call.query)
  /\ binarySearch(models[call.on], LowerText(call.query), 0,
                  Len(models[call.on].suffixArray) - 1, FALSE) = 0 - 1
  /\ call.matched = <<>>

\* the records a model holds, in stored order
StoredRecords(i) == ObjectValues(models[i].entryIndex)

\* what match(query) on a model state returns, as entry objects
Results(m, query) == MatchedEntries(m, match(m, query))

\* C6: insert and remove never change the receiver: across every call each
\* existing model m stays, and m.match(q) returns for every query q what it
\* returned before the call.  (match reads nothing but the model's state,
\* so the queries are put only to a model whose state is no longer the same.)
C6_ReceiverUnchanged ==
  [][\A i \in DOMAIN models :
       /\ i \in DOMAIN models'
       /\ \/ models'[i] = models[i]
          \/ \A q \in Queries : Results(models'[i], q) = Results(models[i], q)]_vars

\* a second insert or remove has returned, and its receiver holds records
C6_Witness ==
  /\ call.op \in {"insert", "remove"}
  /\ call.error = "none"
  /\ Len(models) >= 3
  /\ StoredRecords(call.on) # <<>>
  /\ StoredRecords(call.made) # StoredRecords(call.on)

\* the new records of an insert call, a lone record counted as a list of one
NewRecords(x) == IF x.isArray THEN x.value ELSE <<x.value>>

\* C7: insert(x) returns a new model whose record list is the receiver's
\* records in stored order followed by the new records, x being a list of
\* records or a single record.
C7_InsertAppends ==
  call.op = "insert" =>
    /\ call.made \in DOMAIN models
    /\ call.made # call.on
    /\ StoredRecords(call.made) =
         StoredRecords(call.on) \o NewRecords(call.insertArg)

\* a single record, not in an array, inserted into a model that holds records
C7_Witness ==
  /\ call.op = "insert"
  /\ ~call.insertArg.isArray
  /\ StoredRecords(call.on) # <<>>
  /\ Len(StoredRecords(call.made)) = Len(StoredRecords(call.on)) + 1

\* two records have the same top-level attributes with the same values
SameRecord(a, b) == {a[i] : i \in DOMAIN a} = {b[i] : i \in DOMAIN b}

\* the retention rule of C8
Retained(criteria, entry) ==
  /\ criteria.filters.given =>
       \A i \in DOMAIN criteria.filters.list :
         ~ApplyFilter(criteria.filters.list[i], entry)
  /\ criteria.strings.given =>
       \A i \in DOMAIN criteria.strings.list :
         criteria.strings.list[i] # Prop(entry, "string")
  /\ criteria.entries.given =>
       \A i \in DOMAIN criteria.entries.list :
         ~SameRecord(criteria.entries.list[i], entry)

C9_FiltersKeepPassing ==
  (call.op = "remove" /\ call.hasArg /\ call.criteria.filters.given
   /\ ~call.criteria.strings.given /\ ~call.criteria.entries.given) =>
    StoredRecords(call.made) =
      SelectSeq(StoredRecords(call.on),
                LAMBDA entry :
                  \A i \in DOMAIN call.criteria.filters.list :
                    ApplyFilter(call.criteria.filters.list[i], entry))

\* C10: remove with none of the three criteria, an empty criteria object or
\* no argument at all, raises nothing and returns a new, distinct model
\* whose match(q) equals the receiver's for every query q.
C10_RemoveNothing ==
  (call.op = "remove"
   /\ (~call.hasArg
       \/ (~call.criteria.filters.given /\ ~call.criteria.strings.given
           /\ ~call.criteria.entries.given))) =>
    /\ call.error = "none"
    /\ call.made \in DOMAIN models
    /\ call.made # call.on
    /\ \A q \in Queries :
         Results(models[call.made], q) = Results(models[call.on], q)

\* remove was called with a list of records and no other criterion
RemoveByRecords ==
  /\ call.op = "remove"
  /\ call.hasArg
  /\ call.criteria.entries.given
  /\ ~call.criteria.filters.given
  /\ ~call.criteria.strings.given

\* some listed record has the same top-level attributes with equal values
IsListed(entry) ==
  \E i \in DOMAIN call.criteria.entries.list :
    SameRecord(call.criteria.entries.list[i], entry)

\* C11: remove({records}) removes a record of the receiver if and only if
\* some listed record has exactly the same set of top-level attribute names
\* with equal values, whatever the order of the attributes; a listed record
\* that differs in an attribute value removes nothing.
C11_RecordEquality ==
  RemoveByRecords =>
    /\ call.made \in DOMAIN models
    /\ \A k \in DOMAIN StoredRecords(call.on) :
         IsListed(StoredRecords(call.on)[k]) <=>
           ~\E j \in DOMAIN StoredRecords(call.made) :
              StoredRecords(call.made)[j] = StoredRecords(call.on)[k]
    /\ \A j \in DOMAIN StoredRecords(call.made) :
         \E k \in DOMAIN StoredRecords(call.on) :
           StoredRecords(call.made)[j] = StoredRecords(call.on)[k]

\* a listed record that names its attributes in another order than the
\* stored record it equals: that record is removed, another one is retained
C11_Witness ==
  /\ RemoveByRecords
  /\ Len(StoredRecords(call.on)) = 2
  /\ Len(StoredRecords(call.made)) = 1
  /\ \E i \in DOMAIN call.criteria.entries.list :
       \E k \in DOMAIN StoredRecords(call.on) :
         /\ SameRecord(call.criteria.entries.list[i], StoredRecords(call.on)[k])
         /\ call.criteria.entries.list[i] # StoredRecords(call.on)[k]
         /\ StoredRecords(call.made)[1] # StoredRecords(call.on)[k]

\* the records a call hands to build beyond those of its receiver
GivenRecords(c) ==
  CASE c.op = "autocompleter" -> c.entries
    [] c.op = "insert" -> NewRecords(c.insertArg)
    [] OTHER -> <<>>

\* C12: when a record of the list given to autocompleter, or a record passed
\* to insert, has no string attribute, the call raises an error, returns no
\* model, and leaves every existing model, the receiver included, as it was.
C12_MissingStringFails ==
  [][buildThrows(GivenRecords(call')) =>
       /\ call'.error # "none"
       /\ call'.made = 0
       /\ models' = models]_vars

\* an insert of a record without a string into a model that holds records
\* has failed
C12_Witness ==
  /\ call.op = "insert"
  /\ buildThrows(NewRecords(call.insertArg))
  /\ StoredRecords(call.on) # <<>>
  /\ call.error = "TypeError"

\* what radixSortM12 returns in the call getSuffixArray(initialArray)
FirstSort(initialArray) ==
  radixSortM12(M12Of(Len(initialArray)), initialArray \o <<0, 0, 0>>)

\* the arguments of the calls of getSuffixArray that getSuffixArray(initialArray)
\* gives rise to, itself first: it calls itself on rankedM12 when
\* radixSortM12 found duplicates
RECURSIVE Calls(_)
Calls(initialArray) ==
  <<initialArray>> \o
  (IF FirstSort(initialArray).duplicatesFound
   THEN Calls(FirstSort(initialArray).rankedM12)
   ELSE <<>>)

\* sa holds every position of [0, n) exactly once and nothing else
IsPermutation(sa, n) ==
  /\ Len(sa) = n
  /\ \A p \in 0..(n - 1) : Cardinality({i \in DOMAIN sa : sa[i] = p}) = 1

\* C13: for the stream of every model and every rank sequence passed to a
\* recursive call, getSuffixArray returns a sequence of the input's length
\* that holds every position of the input exactly once.
C13_Permutation ==
  \A i \in DOMAIN models :
    /\ IsPermutation(models[i].suffixArray, Len(models[i].charArray))
    /\ \A k \in DOMAIN Calls(models[i].charArray) :
         IsPermutation(getSuffixArray(Calls(models[i].charArray)[k]),
                       Len(Calls(models[i].charArray)[k]))

\* a model whose stream took the recursive call, on a rank sequence of
\* four ranks, and whose records are not all empty
C13_Witness ==
  /\ Len(Calls(models[1].charArray)) >= 2
  /\ Len(Calls(models[1].charArray)[2]) = 4
  /\ \E p \in DOMAIN models[1].charArray : models[1].charArray[p] # 0
  /\ IsPermutation(models[1].suffixArray, Len(models[1].charArray))

\* the suffix of T at position a is strictly less than the suffix at b under
\* symbol-by-symbol comparison, a proper prefix being less than its extension
RECURSIVE SuffixLess(_, _, _)
SuffixLess(T, a, b) ==
  IF a >= Len(T) THEN b < Len(T)
  ELSE IF b >= Len(T) THEN FALSE
       ELSE IF At(T, a) = At(T, b) THEN SuffixLess(T, a + 1, b + 1)
            ELSE At(T, a) < At(T, b)

\* C14: in the suffix array of every model, the suffix of the stream at
\* SA[i] is strictly less than the suffix at SA[i+1], for all adjacent i.
C14_SuffixesAscend ==
  \A i \in DOMAIN models :
    \A k \in 1..(Len(models[i].suffixArray) - 1) :
      SuffixLess(models[i].charArray,
                 models[i].suffixArray[k], models[i].suffixArray[k + 1])

\* m12Ranks as merge and radixSortM0 receive it in the call
\* getSuffixArray(initialArray)
LevelRanks(initialArray) ==
  resortM12(M12Of(Len(initialArray)), FirstSort(initialArray)).m12Ranks

\* every position of M12 has a rank other than 0, the rank `|| 0` gives to
\* the positions at and past the end of the input
RanksNonZero(initialArray) ==
  \A p \in DOMAIN LevelRanks(initialArray) : LevelRanks(initialArray)[p] # 0

\* the run of compare on two positions of the call getSuffixArray(initialArray)
CompareRun(initialArray, m0, m12) ==
  compareFrom(initialArray \o <<0, 0, 0>>, LevelRanks(initialArray), m0, m12, 0)

\* compare, called on a position of M0 and one of M12, never ends on two
\* distinct positions of the input that carry the same rank
NoRankTie(initialArray) ==
  \A a \in {i \in 0..(Len(initialArray) - 1) : i % 3 = 0} :
    \A b \in DOMAIN LevelRanks(initialArray) :
      LET run == CompareRun(initialArray, a, b)
      IN (run.byRanks /\ run.m0 < Len(initialArray) /\ run.m12 < Len(initialArray))
           => RankOr0(LevelRanks(initialArray), run.m0) #
              RankOr0(LevelRanks(initialArray), run.m12)

\* the pair sort of radixSortM0 sees no two positions of M0 with the same
\* key (inputArray[index], rank of index + 1)
NoM0KeyTie(initialArray) ==
  \A a, b \in {i \in 0..(Len(initialArray) - 1) : i % 3 = 0} :
    (a # b /\ initialArray[a + 1] = initialArray[b + 1]) =>
      RankOr0(LevelRanks(initialArray), a + 1) #
      RankOr0(LevelRanks(initialArray), b + 1)

\* C15: in every call of getSuffixArray, those that recomputed the ranks
\* after the recursive call included, every position of M12 has a rank other
\* than 0, and neither compare nor the pair sort of M0 meets equal keys for
\* two distinct positions of the input.
C15_RanksDistinguish ==
  \A i \in DOMAIN models :
    \A k \in DOMAIN Calls(models[i].charArray) :
      /\ RanksNonZero(Calls(models[i].charArray)[k])
      /\ NoRankTie(Calls(models[i].charArray)[k])
      /\ NoM0KeyTie(Calls(models[i].charArray)[k])

\* the suffix of the model's stream at suffixArray[k] starts with q
HasPrefix(m, q, k) ==
  /\ At(m.suffixArray, k) + Len(q) <= Len(m.charArray)
  /\ SubSeq(m.charArray, At(m.suffixArray, k) + 1,
            At(m.suffixArray, k) + Len(q)) = q

\* the suffix-array indices whose suffix starts with q
PrefixIndices(m, q) ==
  {k \in 0..(Len(m.suffixArray) - 1) : HasPrefix(m, q, k)}

\* what the two binary searches of the last match returned
FirstMatch ==
  binarySearch(models[call.on], QueryUnits(call.query), 0,
               Len(models[call.on].suffixArray) - 1, FALSE)

LastMatch ==
  binarySearch(models[call.on], QueryUnits(call.query), 0,
               Len(models[call.on].suffixArray) - 1, TRUE)

\* C16: in every match, the first binary search returns the smallest
\* suffix-array index whose suffix has the lowercased query as a prefix and
\* the second the largest; both return -1 exactly when there is no such
\* index, and every index between the two has the query as a prefix.
C16_SearchBounds ==
  call.op = "match" =>
    LET P == PrefixIndices(models[call.on], QueryUnits(call.query))
    IN IF P = {}
       THEN FirstMatch = 0 - 1 /\ LastMatch = 0 - 1
       ELSE /\ FirstMatch = SetMin(P)
            /\ LastMatch = SetMax(P)
            /\ \A k \in FirstMatch..LastMatch : k \in P

\* a match whose query is a prefix of three suffixes or more, none of them
\* at either end of the suffix array
C16_Witness ==
  /\ call.op = "match"
  /\ call.query # <<>>
  /\ FirstMatch > 0
  /\ LastMatch >= FirstMatch + 2
  /\ LastMatch < Len(models[call.on].suffixArray) - 1

\* the positions of M0 in an input
M0Positions(initialArray) == {i \in 0..(Len(initialArray) - 1) : i % 3 = 0}

\* the most calls compare makes to itself in the call
\* getSuffixArray(initialArray), over the positions of M0 and of M12
CompareDepth(initialArray) ==
  SetMax({0} \cup {CompareRun(initialArray, a, b).calls :
                     a \in M0Positions(initialArray),
                     b \in DOMAIN LevelRanks(initialArray)})

\* C17: getSuffixArray terminates: every recursive call, made when
\* duplicate triples were found, is on a rank sequence strictly shorter than
\* the input of the call that makes it, of at most ceil(2n/3) ranks for an
\* input of n symbols, and compare calls itself at most twice.
C17_RecursionShrinks ==
  \A i \in DOMAIN models :
    \A k \in DOMAIN Calls(models[i].charArray) :
      /\ k > 1 =>
           /\ FirstSort(Calls(models[i].charArray)[k - 1]).duplicatesFound
           /\ Len(Calls(models[i].charArray)[k]) <
                Len(Calls(models[i].charArray)[k - 1])
           /\ 3 * Len(Calls(models[i].charArray)[k]) <=
                2 * Len(Calls(models[i].charArray)[k - 1]) + 2
      /\ CompareDepth(Calls(models[i].charArray)[k]) <= 2
      /\ Len(Calls(models[i].charArray)) <= Len(models[i].charArray) + 1

\* a model whose stream took the recursive call, compare calling itself
\* twice both in the outer and in the inner call
C17_Witness ==
  /\ Len(Calls(models[1].charArray)) = 2
  /\ CompareDepth(Calls(models[1].charArray)[1]) = 2
  /\ CompareDepth(Calls(models[1].charArray)[2]) = 2

====
